---- MODULE Spec2Model ----
(* The influencer-participation state machine of the campaign and survey   *)
(* services: PlatformProductOrderInfluencer.status and the order-level      *)
(* status of PlatformProductOrder, as written by CampaignService,           *)
(* SurveyService and PlatformProductOrderService.                           *)
EXTENDS Integers, FiniteSets, Sequences, TLC

(* ---------------------------------------------------------------------- *)
(* Bounds and fixtures                                                     *)
(* ---------------------------------------------------------------------- *)

\* largest number of ids in one batch call (influencerIds / paymentIds)
MaxBatch == 2

\* users that have an influencer profile, and one user that has none
UserIds == {1, 2}
NonInfluencerUsers == {3}

\* user.id and user.influencer.id are different keys
InfluencerIdOf(u) == u + 10
UserIdOf(i) == i - 10
InfluencerIds == {InfluencerIdOf(u) : u \in UserIds}

\* desiredAmount values an influencer may have stored for the order's type
Amounts == {1, 2}

\* submissionLink / surveyResponseText values an influencer may submit
Links == {"linkA", "linkB"}

\* one campaign and one survey, each with its own platform product order
Campaigns == {"campaign"}
Surveys == {"survey"}
OrderIds == Campaigns \cup Surveys

\* the rows present in the database when the services start: one order
\* with two influencer users, or a campaign that has no post type yet
Scenarios ==
  { [orders |-> Campaigns, users |-> UserIds, typed |-> Campaigns,
     amounts |-> {1}, links |-> {"linkA"}],
    [orders |-> Surveys, users |-> UserIds, typed |-> Surveys,
     amounts |-> {1}, links |-> {"linkA"}],
    [orders |-> Campaigns, users |-> {1}, typed |-> {},
     amounts |-> {1}, links |-> {"linkA"}] }

\* a campaign and a survey side by side, sharing one influencer user
TwoOrderScenarios ==
  { [orders |-> OrderIds, users |-> {1}, typed |-> OrderIds,
     amounts |-> {1}, links |-> {"linkA"}] }

\* one order and one influencer user whose desired amount changes and who
\* submits different links
OneInfluencerScenarios ==
  { [orders |-> Campaigns, users |-> {1}, typed |-> Campaigns,
     amounts |-> Amounts, links |-> Links],
    [orders |-> Surveys, users |-> {1}, typed |-> Surveys,
     amounts |-> Amounts, links |-> Links],
    [orders |-> Surveys, users |-> {1}, typed |-> {},
     amounts |-> Amounts, links |-> Links] }

Batches(S) == {ids \in SUBSET S : Cardinality(ids) <= MaxBatch}

(* ---------------------------------------------------------------------- *)
(* Enumerations                                                            *)
(* ---------------------------------------------------------------------- *)

ProductOrderInfluencerStatus ==
  { "Added", "Invited", "Matching", "ToBeSubmitted", "ToBeAnswered",
    "ToBeApproved", "Approved", "NotApproved", "ToBePaid", "Paid",
    "Declined", "NotSelected", "Removed", "Withdrawn" }

\* no PlatformProductOrderInfluencer row for the (order, influencer) pair
NoRecord == "NoRecord"

\* numeric value of a ProductOrderInfluencerStatus member, used by `<`
StatusOrdinal(s) ==
  CASE s = "Added" -> 0
    [] s = "Invited" -> 1
    [] s = "Matching" -> 2
    [] s \in {"ToBeSubmitted", "ToBeAnswered"} -> 3
    [] s = "ToBeApproved" -> 4
    [] s = "Approved" -> 5
    [] s = "ToBePaid" -> 6
    [] s = "Paid" -> 7
    [] OTHER -> 8

Status == {"InPreparation", "OnGoing", "Finished", "Archived"}

\* numeric value of a Status member, used by `<`, `<=`, `>` and `>=`
OrderStatusOrdinal(s) ==
  CASE s = "InPreparation" -> 0
    [] s = "OnGoing" -> 1
    [] s = "Finished" -> 2
    [] s = "Archived" -> 3

\* statuses that updatePlatformProductPayments treats as payments
PaymentStatuses == {"Declined", "ToBePaid", "Paid"}

\* values the `status` field of ApprovePaymentsDto takes
ApprovePaymentsDtoStatus == PaymentStatuses

(* ---------------------------------------------------------------------- *)
(* State                                                                   *)
(* ---------------------------------------------------------------------- *)

VARIABLES
  orders,       \* platform product orders that exist
  users,        \* influencer users that exist
  typed,        \* orders whose campaign.postType / survey.surveyType is set
  amounts,      \* desiredAmount values the influencers have stored over time
  links,        \* links / response texts the influencers submit
  orderStatus,  \* PlatformProductOrder.status
  status,       \* PlatformProductOrderInfluencer.status, or NoRecord
  agreedAmount, \* PlatformProductOrderInfluencer.agreedAmount, 0 without a row
  submission,   \* submissionLink / surveyResponseText of the performance or
                \* response record of the (order, influencer), or NoRecord
  last,         \* what the last service call was and how it ended
  pending       \* the request that has passed its checks and awaits its write

vars ==
  <<orders, users, typed, amounts, links, orderStatus, status, agreedAmount,
    submission, last, pending>>

\* no request is between its checks and its write
NoPending == [op |-> "none", order |-> "none", rows |-> {}, amount |-> 0]

\* orders are created InPreparation and without participants
InitFrom(scenarios) ==
  /\ \E sc \in scenarios :
       /\ orders = sc.orders /\ users = sc.users /\ typed = sc.typed
       /\ amounts = sc.amounts /\ links = sc.links
  /\ orderStatus = [o \in OrderIds |-> "InPreparation"]
  /\ status = [o \in OrderIds |-> [i \in InfluencerIds |-> NoRecord]]
  /\ agreedAmount = [o \in OrderIds |-> [i \in InfluencerIds |-> 0]]
  /\ submission = [o \in OrderIds |-> [i \in InfluencerIds |-> NoRecord]]
  /\ last = [op |-> "none", result |-> "ok", count |-> 0, msg |-> "none"]
  /\ pending = NoPending

Init == InitFrom(Scenarios)

InitTwoOrders == InitFrom(TwoOrderScenarios)

InitOneInfluencer == InitFrom(OneInfluencerScenarios)

\* the call returns (or throws) and the response is observed
Return(op, res, cnt) ==
  last' = [op |-> op, result |-> res, count |-> cnt, msg |-> "none"]

\* the call throws an exception of class `res` whose message is of kind `msg`
Throw(op, res, msg) ==
  last' = [op |-> op, result |-> res, count |-> 0, msg |-> msg]

\* prisma update / updateMany of the status column of the rows S of order o
SetStatus(o, S, new) ==
  [status EXCEPT ![o] = [i \in InfluencerIds |-> IF i \in S THEN new ELSE @[i]]]

\* rows selected by `where: { influencer: { id: { in: influencerIds } } }`
ParticipantsByInfluencerId(o, ids) ==
  {i \in InfluencerIds : i \in ids /\ status[o][i] # NoRecord}

\* rows selected by `where: { influencer: { userId: { in: influencerIds } } }`
ParticipantsByUserId(o, ids) ==
  {i \in InfluencerIds : UserIdOf(i) \in ids /\ status[o][i] # NoRecord}

\* influencerIds.filter(id => !rows.find(r => r.influencer.id === id))
NotInOrderByInfluencerId(o, ids) ==
  {id \in ids : id \notin ParticipantsByInfluencerId(o, ids)}

\* influencerIds.filter(id => !rows.find(r => r.influencer.userId === id))
NotInOrderByUserId(o, ids) ==
  {id \in ids : \A i \in ParticipantsByUserId(o, ids) : UserIdOf(i) # id}

\* platformProductOrderInfluencers[0] for `where: { influencerId: user.influencer.id }`
OwnRecord(o, u) == status[o][InfluencerIdOf(u)]

FrameOrders ==
  UNCHANGED <<orders, users, typed, amounts, links, pending, orderStatus, agreedAmount, submission>>
FrameAll ==
  UNCHANGED <<orders, users, typed, amounts, links, pending, orderStatus, status, agreedAmount, submission>>

(* ---------------------------------------------------------------------- *)
(* CampaignService / SurveyService: influencer onboarding                  *)
(* ---------------------------------------------------------------------- *)

\* faulty variant of addInfluencers: the `update` of the upsert sets the
\* status as the `create` does
AddInfluencersResetStatus(o, ids, amount) ==
  LET notExist == {id \in ids : id \notin users}
      targets == {InfluencerIdOf(u) : u \in ids}
  IN  IF OrderStatusOrdinal(orderStatus[o]) >= OrderStatusOrdinal("Finished")
      THEN FrameAll /\ Return("addInfluencers", "Forbidden", 0)
      ELSE IF o \notin typed
      THEN FrameAll /\ Return("addInfluencers", "BadRequest", 0)
      ELSE IF notExist # {}
      THEN FrameAll /\ Return("addInfluencers", "NotFound", 0)
      ELSE /\ status' = SetStatus(o, targets, "Added")
           /\ agreedAmount' = [agreedAmount EXCEPT ![o] =
                 [i \in InfluencerIds |-> IF i \in targets THEN amount ELSE @[i]]]
           /\ UNCHANGED <<orders, users, typed, amounts, links, pending, orderStatus, submission>>
           /\ Return("addInfluencers", "ok", 0)

\* faulty variant of addInfluencers: no check of the order status
AddInfluencersAfterFinish(o, ids, amount) ==
  LET notExist == {id \in ids : id \notin users}
      targets == {InfluencerIdOf(u) : u \in ids}
  IN  IF o \notin typed
      THEN FrameAll /\ Return("addInfluencers", "BadRequest", 0)
      ELSE IF notExist # {}
      THEN FrameAll /\ Return("addInfluencers", "NotFound", 0)
      ELSE /\ status' = [status EXCEPT ![o] =
                 [i \in InfluencerIds |->
                    IF i \in targets /\ @[i] = NoRecord THEN "Added" ELSE @[i]]]
           /\ agreedAmount' = [agreedAmount EXCEPT ![o] =
                 [i \in InfluencerIds |-> IF i \in targets THEN amount ELSE @[i]]]
           /\ UNCHANGED <<orders, users, typed, amounts, links, pending, orderStatus, submission>>
           /\ Return("addInfluencers", "ok", 0)

\* faulty variant of addInfluencers: the upsert has an empty `update`
AddInfluencersKeepAmount(o, ids, amount) ==
  LET notExist == {id \in ids : id \notin users}
      targets == {InfluencerIdOf(u) : u \in ids}
  IN  IF OrderStatusOrdinal(orderStatus[o]) >= OrderStatusOrdinal("Finished")
      THEN FrameAll /\ Return("addInfluencers", "Forbidden", 0)
      ELSE IF o \notin typed
      THEN FrameAll /\ Return("addInfluencers", "BadRequest", 0)
      ELSE IF notExist # {}
      THEN FrameAll /\ Return("addInfluencers", "NotFound", 0)
      ELSE /\ status' = [status EXCEPT ![o] =
                 [i \in InfluencerIds |->
                    IF i \in targets /\ @[i] = NoRecord THEN "Added" ELSE @[i]]]
           /\ agreedAmount' = [agreedAmount EXCEPT ![o] =
                 [i \in InfluencerIds |->
                    IF i \in targets /\ status[o][i] = NoRecord THEN amount ELSE @[i]]]
           /\ UNCHANGED <<orders, users, typed, amounts, links, pending, orderStatus, submission>>
           /\ Return("addInfluencers", "ok", 0)

\* faulty variant of addInfluencers: the users that exist are upserted
\* before the missing ones are reported
AddInfluencersBeforeLookupCheck(o, ids, amount) ==
  LET notExist == {id \in ids : id \notin users}
      targets == {InfluencerIdOf(u) : u \in ids \cap users}
  IN  IF OrderStatusOrdinal(orderStatus[o]) >= OrderStatusOrdinal("Finished")
      THEN FrameAll /\ Return("addInfluencers", "Forbidden", 0)
      ELSE IF o \notin typed
      THEN FrameAll /\ Return("addInfluencers", "BadRequest", 0)
      ELSE /\ status' = [status EXCEPT ![o] =
                 [i \in InfluencerIds |->
                    IF i \in targets /\ @[i] = NoRecord THEN "Added" ELSE @[i]]]
           /\ agreedAmount' = [agreedAmount EXCEPT ![o] =
                 [i \in InfluencerIds |-> IF i \in targets THEN amount ELSE @[i]]]
           /\ UNCHANGED <<orders, users, typed, amounts, links, pending, orderStatus, submission>>
           /\ IF notExist # {}
              THEN Return("addInfluencers", "NotFound", 0)
              ELSE Return("addInfluencers", "ok", 0)

\* addInfluencers: ids are user ids; one upsert per resolved user, which
\* creates the row as Added or replaces agreedAmount and currency of the row
\* found; `amount` is the desiredAmount stored for the influencers
AddInfluencers(o, ids, amount) ==
  LET notExist == {id \in ids : id \notin users}
      targets == {InfluencerIdOf(u) : u \in ids}
  IN  IF OrderStatusOrdinal(orderStatus[o]) >= OrderStatusOrdinal("Finished")
      THEN FrameAll /\ Return("addInfluencers", "Forbidden", 0)
      ELSE IF o \notin typed
      THEN FrameAll /\ Return("addInfluencers", "BadRequest", 0)
      ELSE IF notExist # {}
      THEN FrameAll /\ Return("addInfluencers", "NotFound", 0)
      ELSE /\ status' = [status EXCEPT ![o] =
                 [i \in InfluencerIds |->
                    IF i \in targets /\ @[i] = NoRecord THEN "Added" ELSE @[i]]]
           /\ agreedAmount' = [agreedAmount EXCEPT ![o] =
                 [i \in InfluencerIds |-> IF i \in targets THEN amount ELSE @[i]]]
           /\ UNCHANGED <<orders, users, typed, amounts, links, pending, orderStatus, submission>>
           /\ Return("addInfluencers", "ok", 0)

\* how the upsert of the call that lost the race for a new row ends: the
\* database resolves the conflict as an update, or the insert that follows
\* the lookup violates PlatformProductOrderInfluencerIdentifier
UpsertRaceOutcomes == {"updatesInPlace", "uniqueViolation"}

\* two addInfluencers calls for the same user and order that overlap: both
\* pass the guards and both upserts look the row up before either writes;
\* the response observed is that of the call that writes second
AddInfluencersOverlapping(o, u, amount, outcome) ==
  LET i == InfluencerIdOf(u)
  IN  IF OrderStatusOrdinal(orderStatus[o]) >= OrderStatusOrdinal("Finished")
      THEN FrameAll /\ Return("addInfluencersOverlapping", "Forbidden", 0)
      ELSE IF o \notin typed
      THEN FrameAll /\ Return("addInfluencersOverlapping", "BadRequest", 0)
      ELSE /\ status' = [status EXCEPT ![o][i] = IF @ = NoRecord THEN "Added" ELSE @]
           /\ agreedAmount' = [agreedAmount EXCEPT ![o][i] = amount]
           /\ UNCHANGED <<orders, users, typed, amounts, links, pending, orderStatus, submission>>
           /\ IF status[o][i] = NoRecord /\ outcome = "uniqueViolation"
              THEN Throw("addInfluencersOverlapping", "PrismaError", outcome)
              ELSE Return("addInfluencersOverlapping", "ok", 0)

\* faulty variant of inviteInfluencers: only Added participants may be invited
InviteInfluencersAddedOnly(o, ids) ==
  LET found == ParticipantsByInfluencerId(o, ids)
      notIn == NotInOrderByInfluencerId(o, ids)
      invalid == {i \in found : status[o][i] # "Added"}
  IN  IF notIn # {}
      THEN FrameAll /\ Throw("inviteInfluencers", "BadRequest", "notInOrder")
      ELSE IF invalid # {}
      THEN FrameAll /\ Throw("inviteInfluencers", "BadRequest", "invalidStatus")
      ELSE /\ status' = SetStatus(o, found, "Invited")
           /\ FrameOrders
           /\ Return("inviteInfluencers", "ok", 0)

\* faulty variant of inviteInfluencers: the invalid statuses are reported
\* before the ids that are not in the order
InviteInfluencersInvalidFirst(o, ids) ==
  LET found == ParticipantsByInfluencerId(o, ids)
      notIn == NotInOrderByInfluencerId(o, ids)
      invalid == {i \in found : status[o][i] \notin {"Added", "Invited"}}
  IN  IF invalid # {}
      THEN FrameAll /\ Throw("inviteInfluencers", "BadRequest", "invalidStatus")
      ELSE IF notIn # {}
      THEN FrameAll /\ Throw("inviteInfluencers", "BadRequest", "notInOrder")
      ELSE /\ status' = SetStatus(o, found, "Invited")
           /\ FrameOrders
           /\ Return("inviteInfluencers", "ok", 0)

\* inviteInfluencers: ids are influencer ids
InviteInfluencers(o, ids) ==
  LET found == ParticipantsByInfluencerId(o, ids)
      notIn == NotInOrderByInfluencerId(o, ids)
      invalid == {i \in found : status[o][i] \notin {"Added", "Invited"}}
  IN  IF notIn # {}
      THEN FrameAll /\ Throw("inviteInfluencers", "BadRequest", "notInOrder")
      ELSE IF invalid # {}
      THEN FrameAll /\ Throw("inviteInfluencers", "BadRequest", "invalidStatus")
      ELSE /\ status' = SetStatus(o, found, "Invited")
           /\ FrameOrders
           /\ Return("inviteInfluencers", "ok", 0)

\* acceptInvitation of the campaign service: Invited -> Matching
CampaignAcceptInvitation(o, u) ==
  IF u \in NonInfluencerUsers
  THEN FrameAll /\ Return("acceptInvitation", "BadRequest", 0)
  ELSE IF OwnRecord(o, u) = NoRecord
  THEN FrameAll /\ Return("acceptInvitation", "BadRequest", 0)
  ELSE IF OwnRecord(o, u) # "Invited"
  THEN FrameAll /\ Return("acceptInvitation", "BadRequest", 0)
  ELSE /\ status' = SetStatus(o, {InfluencerIdOf(u)}, "Matching")
       /\ FrameOrders
       /\ Return("acceptInvitation", "ok", 0)

\* faulty variant of the survey's acceptInvitation: the campaign's next status
SurveyAcceptInvitationToMatching(o, u) ==
  IF u \in NonInfluencerUsers
  THEN FrameAll /\ Return("acceptInvitation", "BadRequest", 0)
  ELSE IF OwnRecord(o, u) = NoRecord
  THEN FrameAll /\ Return("acceptInvitation", "BadRequest", 0)
  ELSE IF OwnRecord(o, u) # "Invited"
  THEN FrameAll /\ Return("acceptInvitation", "BadRequest", 0)
  ELSE /\ status' = SetStatus(o, {InfluencerIdOf(u)}, "Matching")
       /\ FrameOrders
       /\ Return("acceptInvitation", "ok", 0)

\* acceptInvitation of the survey service: Invited -> ToBeAnswered
SurveyAcceptInvitation(o, u) ==
  IF u \in NonInfluencerUsers
  THEN FrameAll /\ Return("acceptInvitation", "BadRequest", 0)
  ELSE IF OwnRecord(o, u) = NoRecord
  THEN FrameAll /\ Return("acceptInvitation", "BadRequest", 0)
  ELSE IF OwnRecord(o, u) # "Invited"
  THEN FrameAll /\ Return("acceptInvitation", "BadRequest", 0)
  ELSE /\ status' = SetStatus(o, {InfluencerIdOf(u)}, "ToBeAnswered")
       /\ FrameOrders
       /\ Return("acceptInvitation", "ok", 0)

\* declineInvitation: Invited -> Declined
DeclineInvitation(o, u) ==
  IF u \in NonInfluencerUsers
  THEN FrameAll /\ Return("declineInvitation", "BadRequest", 0)
  ELSE IF OwnRecord(o, u) = NoRecord
  THEN FrameAll /\ Return("declineInvitation", "BadRequest", 0)
  ELSE IF OwnRecord(o, u) # "Invited"
  THEN FrameAll /\ Return("declineInvitation", "BadRequest", 0)
  ELSE /\ status' = SetStatus(o, {InfluencerIdOf(u)}, "Declined")
       /\ FrameOrders
       /\ Return("declineInvitation", "ok", 0)

(* ---------------------------------------------------------------------- *)
(* Influencer removal                                                      *)
(* ---------------------------------------------------------------------- *)

\* status lists of the two updateMany calls of the campaign service
CampaignNotSelectedFrom == {"Added", "Invited", "Matching"}
CampaignRemovedFrom ==
  {"ToBeSubmitted", "ToBeApproved", "Approved", "ToBePaid", "Paid"}

\* status lists of the two updateMany calls of the survey service
SurveyNotSelectedFrom == {"Added", "Invited"}
SurveyRemovedFrom ==
  {"ToBeAnswered", "ToBeApproved", "Approved", "ToBePaid", "Paid"}

NotSelectedFrom(o) ==
  IF o \in Campaigns THEN CampaignNotSelectedFrom ELSE SurveyNotSelectedFrom
RemovedFrom(o) ==
  IF o \in Campaigns THEN CampaignRemovedFrom ELSE SurveyRemovedFrom

\* faulty variant of removeInfluencers: returns the count of the first bulk update
RemoveInfluencersFirstCount(o, ids) ==
  LET notIn == NotInOrderByInfluencerId(o, ids)
      notSelected == {i \in InfluencerIds :
                        i \in ids /\ status[o][i] \in NotSelectedFrom(o)}
      removed == {i \in InfluencerIds :
                    i \in ids /\ status[o][i] \in RemovedFrom(o)}
  IN  IF notIn # {}
      THEN FrameAll /\ Throw("removeInfluencers", "BadRequest", "notInOrder")
      ELSE /\ status' = [status EXCEPT ![o] =
                 [i \in InfluencerIds |->
                    IF i \in notSelected THEN "NotSelected"
                    ELSE IF i \in removed THEN "Removed"
                    ELSE @[i]]]
           /\ FrameOrders
           /\ Return("removeInfluencers", "ok", Cardinality(notSelected))

\* removeInfluencers: ids are influencer ids; two bulk updates, summed count
RemoveInfluencers(o, ids) ==
  LET notIn == NotInOrderByInfluencerId(o, ids)
      notSelected == {i \in InfluencerIds :
                        i \in ids /\ status[o][i] \in NotSelectedFrom(o)}
      removed == {i \in InfluencerIds :
                    i \in ids /\ status[o][i] \in RemovedFrom(o)}
  IN  IF notIn # {}
      THEN FrameAll /\ Throw("removeInfluencers", "BadRequest", "notInOrder")
      ELSE /\ status' = [status EXCEPT ![o] =
                 [i \in InfluencerIds |->
                    IF i \in notSelected THEN "NotSelected"
                    ELSE IF i \in removed THEN "Removed"
                    ELSE @[i]]]
           /\ FrameOrders
           /\ Return("removeInfluencers", "ok",
                     Cardinality(notSelected) + Cardinality(removed))

\* faulty variant of removeInfluencerSelf: `<=` in place of `<`
RemoveInfluencerSelfLessOrEqual(o, u) ==
  IF u \in NonInfluencerUsers
  THEN FrameAll /\ Return("removeInfluencerSelf", "BadRequest", 0)
  ELSE IF OwnRecord(o, u) = NoRecord
  THEN FrameAll /\ Return("removeInfluencerSelf", "TypeError", 0)
  ELSE IF StatusOrdinal(OwnRecord(o, u)) <= StatusOrdinal("Invited")
  THEN FrameAll /\ Return("removeInfluencerSelf", "ApplicationException", 0)
  ELSE IF OwnRecord(o, u) = "Invited"
  THEN FrameAll /\ Return("removeInfluencerSelf", "Forbidden", 0)
  ELSE /\ status' = SetStatus(o, {InfluencerIdOf(u)}, "Withdrawn")
       /\ FrameOrders
       /\ Return("removeInfluencerSelf", "ok", 0)

\* removeInfluencerSelf: reads fields of platformProductOrderInfluencers[0]
RemoveInfluencerSelf(o, u) ==
  IF u \in NonInfluencerUsers
  THEN FrameAll /\ Return("removeInfluencerSelf", "BadRequest", 0)
  ELSE IF OwnRecord(o, u) = NoRecord
  THEN FrameAll /\ Return("removeInfluencerSelf", "TypeError", 0)
  ELSE IF StatusOrdinal(OwnRecord(o, u)) < StatusOrdinal("Invited")
  THEN FrameAll /\ Return("removeInfluencerSelf", "ApplicationException", 0)
  ELSE IF OwnRecord(o, u) = "Invited"
  THEN FrameAll /\ Return("removeInfluencerSelf", "Forbidden", 0)
  ELSE /\ status' = SetStatus(o, {InfluencerIdOf(u)}, "Withdrawn")
       /\ FrameOrders
       /\ Return("removeInfluencerSelf", "ok", 0)

(* ---------------------------------------------------------------------- *)
(* Match, submission, approval                                             *)
(* ---------------------------------------------------------------------- *)

\* faulty variant of confirmMatch: the write has the order-wide filter
ConfirmMatchOrderWide(o, ids) ==
  LET found == ParticipantsByUserId(o, ids)
      notIn == NotInOrderByUserId(o, ids)
      invalid == {i \in found : status[o][i] # "Matching"}
  IN  IF notIn # {}
      THEN FrameAll /\ Throw("confirmMatch", "BadRequest", "notInOrder")
      ELSE IF invalid # {}
      THEN FrameAll /\ Throw("confirmMatch", "BadRequest", "invalidStatus")
      ELSE /\ status' = SetStatus(o, {i \in InfluencerIds : status[o][i] # NoRecord},
                                  "ToBeSubmitted")
           /\ FrameOrders
           /\ Return("confirmMatch", "ok", 0)

\* confirmMatch (campaign only): ids are user ids
ConfirmMatch(o, ids) ==
  LET found == ParticipantsByUserId(o, ids)
      notIn == NotInOrderByUserId(o, ids)
      invalid == {i \in found : status[o][i] # "Matching"}
  IN  IF notIn # {}
      THEN FrameAll /\ Throw("confirmMatch", "BadRequest", "notInOrder")
      ELSE IF invalid # {}
      THEN FrameAll /\ Throw("confirmMatch", "BadRequest", "invalidStatus")
      ELSE /\ status' = SetStatus(o, found, "ToBeSubmitted")
           /\ FrameOrders
           /\ Return("confirmMatch", "ok", 0)

\* statuses from which submitInfluencerData / submitSurveyResult proceed
CampaignSubmitFrom == {"ToBeSubmitted", "NotApproved"}
SurveySubmitFrom == {"ToBeAnswered", "NotApproved"}
SubmitFrom(o) == IF o \in Campaigns THEN CampaignSubmitFrom ELSE SurveySubmitFrom

\* how an interactive $transaction ends: it commits, or one of its
\* statements or the commit itself fails and every write made through the
\* transaction client is rolled back
TransactionOutcomes == {"commit", "firstWriteFails", "secondWriteFails", "commitFails"}

\* faulty variant of the submit transaction: the two writes are not in a
\* transaction, so the status update stays when the upsert fails
SubmitWithoutTransaction(o, u, link, outcome) ==
  IF outcome = "commit"
  THEN /\ status' = SetStatus(o, {InfluencerIdOf(u)}, "ToBeApproved")
       /\ submission' = [submission EXCEPT ![o][InfluencerIdOf(u)] = link]
       /\ UNCHANGED <<orders, users, typed, amounts, links, pending, orderStatus, agreedAmount>>
       /\ Return("submitData", "ok", 0)
  ELSE IF outcome = "firstWriteFails"
  THEN FrameAll /\ Throw("submitData", "DbError", outcome)
  ELSE /\ status' = SetStatus(o, {InfluencerIdOf(u)}, "ToBeApproved")
       /\ UNCHANGED <<orders, users, typed, amounts, links, pending, orderStatus, agreedAmount, submission>>
       /\ Throw("submitData", "DbError", outcome)

\* the $transaction of submitInfluencerData / submitSurveyResult: the status
\* update and the upsert of the performance / response record
SubmitTransaction(o, u, link, outcome) ==
  IF outcome = "commit"
  THEN /\ status' = SetStatus(o, {InfluencerIdOf(u)}, "ToBeApproved")
       /\ submission' = [submission EXCEPT ![o][InfluencerIdOf(u)] = link]
       /\ UNCHANGED <<orders, users, typed, amounts, links, pending, orderStatus, agreedAmount>>
       /\ Return("submitData", "ok", 0)
  ELSE FrameAll /\ Throw("submitData", "DbError", outcome)

\* faulty variant of submitData: the status guard is missing
SubmitDataUnguarded(o, u) ==
  IF u \in NonInfluencerUsers
  THEN FrameAll /\ Return("submitData", "BadRequest", 0)
  ELSE IF OwnRecord(o, u) = NoRecord
  THEN FrameAll /\ Return("submitData", "TypeError", 0)
  ELSE \E link \in links, outcome \in TransactionOutcomes :
          SubmitTransaction(o, u, link, outcome)

\* submitInfluencerData / submitSurveyResult: reads platformProductOrderInfluencers[0].status
SubmitData(o, u) ==
  IF u \in NonInfluencerUsers
  THEN FrameAll /\ Return("submitData", "BadRequest", 0)
  ELSE IF OwnRecord(o, u) = NoRecord
  THEN FrameAll /\ Return("submitData", "TypeError", 0)
  ELSE IF OwnRecord(o, u) \notin SubmitFrom(o)
  THEN FrameAll /\ Return("submitData", "Forbidden", 0)
  ELSE \E link \in links, outcome \in TransactionOutcomes :
          SubmitTransaction(o, u, link, outcome)

\* rows matched by `where: { productOrderId }`
OrderParticipants(o) == {i \in InfluencerIds : status[o][i] # NoRecord}

\* faulty variant of approveSubmission: only the validated rows are written
ApproveSubmissionNamedOnly(o, ids) ==
  LET found == ParticipantsByUserId(o, ids)
      notIn == NotInOrderByUserId(o, ids)
      invalid == {i \in found : status[o][i] \notin {"ToBeApproved", "NotApproved"}}
  IN  IF notIn # {}
      THEN FrameAll /\ Throw("approveSubmission", "BadRequest", "notInOrder")
      ELSE IF invalid # {}
      THEN FrameAll /\ Throw("approveSubmission", "BadRequest", "invalidStatus")
      ELSE /\ status' = SetStatus(o, found, "Approved")
           /\ FrameOrders
           /\ Return("approveSubmission", "ok", 0)

\* approveSubmission / approveSurveyResult: ids are user ids
ApproveSubmission(o, ids) ==
  LET found == ParticipantsByUserId(o, ids)
      notIn == NotInOrderByUserId(o, ids)
      invalid == {i \in found : status[o][i] \notin {"ToBeApproved", "NotApproved"}}
  IN  IF notIn # {}
      THEN FrameAll /\ Throw("approveSubmission", "BadRequest", "notInOrder")
      ELSE IF invalid # {}
      THEN FrameAll /\ Throw("approveSubmission", "BadRequest", "invalidStatus")
      ELSE /\ status' = SetStatus(o, OrderParticipants(o), "Approved")
           /\ FrameOrders
           /\ Return("approveSubmission", "ok", 0)

\* disapproveSubmission / disapproveSurveyResult: ids are user ids
DisapproveSubmission(o, ids) ==
  LET found == ParticipantsByUserId(o, ids)
      notIn == NotInOrderByUserId(o, ids)
      invalid == {i \in found : status[o][i] # "ToBeApproved"}
  IN  IF notIn # {}
      THEN FrameAll /\ Throw("disapproveSubmission", "BadRequest", "notInOrder")
      ELSE IF invalid # {}
      THEN FrameAll /\ Throw("disapproveSubmission", "BadRequest", "invalidStatus")
      ELSE /\ status' = SetStatus(o, OrderParticipants(o), "NotApproved")
           /\ FrameOrders
           /\ Return("disapproveSubmission", "ok", 0)

(* ---------------------------------------------------------------------- *)
(* Order-level status                                                      *)
(* ---------------------------------------------------------------------- *)

\* faulty variant of startCampaign / startSurvey: no check that the order
\* has already started
StartOrderAgain(o, instructions) ==
  IF OrderStatusOrdinal(orderStatus[o]) > OrderStatusOrdinal("OnGoing")
  THEN FrameAll /\ Throw("startOrder", "BadRequest", "finished")
  ELSE IF ~instructions
  THEN FrameAll /\ Throw("startOrder", "BadRequest", "instructions")
  ELSE /\ orderStatus' = [orderStatus EXCEPT ![o] = "OnGoing"]
       /\ UNCHANGED <<orders, users, typed, amounts, links, pending, status, agreedAmount, submission>>
       /\ Return("startOrder", "ok", 0)

\* startCampaign / startSurvey; `instructions` tells whether
\* campaign.instructions / survey.instructionsDescription is filled in
StartOrder(o, instructions) ==
  IF orderStatus[o] = "OnGoing"
  THEN FrameAll /\ Throw("startOrder", "BadRequest", "alreadyStarted")
  ELSE IF OrderStatusOrdinal(orderStatus[o]) > OrderStatusOrdinal("OnGoing")
  THEN FrameAll /\ Throw("startOrder", "BadRequest", "finished")
  ELSE IF ~instructions
  THEN FrameAll /\ Throw("startOrder", "BadRequest", "instructions")
  ELSE /\ orderStatus' = [orderStatus EXCEPT ![o] = "OnGoing"]
       /\ UNCHANGED <<orders, users, typed, amounts, links, pending, status, agreedAmount, submission>>
       /\ Return("startOrder", "ok", 0)

\* tx.platformProductOrderInfluencer.updateMany of finishCampaign /
\* finishSurvey: the filter is the status alone, without a productOrderId
ApprovedToToBePaid ==
  [p \in OrderIds |-> [i \in InfluencerIds |->
     IF status[p][i] = "Approved" THEN "ToBePaid" ELSE status[p][i]]]

\* faulty variant of finishCampaign / finishSurvey: the bulk update has no
\* filter at all
FinishOrderEveryParticipant(o, outcome) ==
  IF orderStatus[o] # "OnGoing"
  THEN FrameAll /\ Return("finishOrder", "Forbidden", 0)
  ELSE IF OrderStatusOrdinal(orderStatus[o]) > OrderStatusOrdinal("Finished")
  THEN FrameAll /\ Return("finishOrder", "Forbidden", 0)
  ELSE IF outcome = "commit"
  THEN /\ status' = [p \in OrderIds |-> [i \in InfluencerIds |->
                       IF status[p][i] # NoRecord THEN "ToBePaid" ELSE NoRecord]]
       /\ orderStatus' = [orderStatus EXCEPT ![o] = "Finished"]
       /\ UNCHANGED <<orders, users, typed, amounts, links, pending, agreedAmount, submission>>
       /\ Return("finishOrder", "ok", 0)
  ELSE IF outcome \in {"firstWriteFails", "secondWriteFails"}
  THEN FrameAll /\ Throw("finishOrder", "DbError", outcome)
  ELSE /\ orderStatus' = [orderStatus EXCEPT ![o] = "Finished"]
       /\ UNCHANGED <<orders, users, typed, amounts, links, pending, status, agreedAmount, submission>>
       /\ Throw("finishOrder", "DbError", outcome)

\* finishCampaign / finishSurvey: the bulk update goes through the
\* transaction client, the order update through this.prismaService, which
\* commits on its own before the transaction does
FinishOrder(o, outcome) ==
  IF orderStatus[o] # "OnGoing"
  THEN FrameAll /\ Return("finishOrder", "Forbidden", 0)
  ELSE IF OrderStatusOrdinal(orderStatus[o]) > OrderStatusOrdinal("Finished")
  THEN FrameAll /\ Return("finishOrder", "Forbidden", 0)
  ELSE IF outcome = "commit"
  THEN /\ status' = ApprovedToToBePaid
       /\ orderStatus' = [orderStatus EXCEPT ![o] = "Finished"]
       /\ UNCHANGED <<orders, users, typed, amounts, links, pending, agreedAmount, submission>>
       /\ Return("finishOrder", "ok", 0)
  ELSE IF outcome \in {"firstWriteFails", "secondWriteFails"}
  THEN FrameAll /\ Throw("finishOrder", "DbError", outcome)
  ELSE /\ orderStatus' = [orderStatus EXCEPT ![o] = "Finished"]
       /\ UNCHANGED <<orders, users, typed, amounts, links, pending, status, agreedAmount, submission>>
       /\ Throw("finishOrder", "DbError", outcome)

\* archiveCampaign / archiveSurvey
ArchiveOrder(o) ==
  IF OrderStatusOrdinal(orderStatus[o]) <= OrderStatusOrdinal("OnGoing")
  THEN FrameAll /\ Return("archiveOrder", "Forbidden", 0)
  ELSE IF orderStatus[o] = "Archived"
  THEN FrameAll /\ Return("archiveOrder", "Forbidden", 0)
  ELSE /\ orderStatus' = [orderStatus EXCEPT ![o] = "Archived"]
       /\ UNCHANGED <<orders, users, typed, amounts, links, pending, status, agreedAmount, submission>>
       /\ Return("archiveOrder", "ok", 0)

(* ---------------------------------------------------------------------- *)
(* PlatformProductOrderService: payments                                   *)
(* ---------------------------------------------------------------------- *)

\* primary keys of PlatformProductOrderInfluencer rows
PaymentIds == OrderIds \X InfluencerIds

\* updatePlatformProductPayments: writes dto.status to every listed row
UpdatePlatformProductPayments(paymentIds, st) ==
  LET existing == {p \in paymentIds : status[p[1]][p[2]] \in PaymentStatuses}
      missing == paymentIds \ existing
  IN  IF missing # {}
      THEN FrameAll /\ Return("updatePayments", "Conflict", 0)
      ELSE /\ status' = [o \in OrderIds |-> [i \in InfluencerIds |->
                           IF <<o, i>> \in existing THEN st ELSE status[o][i]]]
           /\ FrameOrders
           /\ Return("updatePayments", "ok", 0)

\* user.status, a member of UserStatus, as the status column of the new row
\* reads it: user 1 is still Unconfirmed, the first member, whose number is
\* that of Added; user 2 has been confirmed and holds the next member
UserStatusAsInfluencerStatus(u) == IF u = 1 THEN "Added" ELSE "Invited"

\* addInfluencers of PlatformProductOrderService: a plain create inside a
\* transaction, every failure of which is rethrown as ConflictException
PlatformAddInfluencers(o, id, amount) ==
  IF id \notin InfluencerIds \/ UserIdOf(id) \notin users
  THEN FrameAll /\ Throw("platformAddInfluencers", "Conflict", "userNotFound")
  ELSE IF status[o][id] # NoRecord
  THEN FrameAll /\ Throw("platformAddInfluencers", "Conflict", "uniqueViolation")
  ELSE /\ status' = [status EXCEPT ![o][id] = UserStatusAsInfluencerStatus(UserIdOf(id))]
       /\ agreedAmount' = [agreedAmount EXCEPT ![o][id] = amount]
       /\ UNCHANGED <<orders, users, typed, amounts, links, pending, orderStatus, submission>>
       /\ Return("platformAddInfluencers", "ok", 0)

(* ---------------------------------------------------------------------- *)
(* Order update                                                            *)
(* ---------------------------------------------------------------------- *)

\* roles of the callers of update
UpdateRoles == {"Client", "Admin"}

\* values of the `status` field of UpdateCampaignDto / UpdateSurveyDto
UpdateDtoStatus == Status \cup {"undefined"}

\* the check that a client does not send a status: `status && ...` in the
\* campaign service, `status !== undefined` in the survey service
ClientSendsStatus(o, role, st) ==
  /\ role = "Client"
  /\ st # "undefined"
  /\ o \in Surveys \/ OrderStatusOrdinal(st) # 0

\* update of a campaign / survey, for a dto whose only field is `status`:
\* the status of the dto is written to the platform product order
UpdateOrder(o, role, st) ==
  IF ClientSendsStatus(o, role, st)
  THEN FrameAll /\ Throw("updateOrder", "ApplicationException", "cantUpdateStatus")
  ELSE IF orderStatus[o] # "InPreparation" /\ st # "undefined"
  THEN FrameAll /\ Throw("updateOrder", "ApplicationException", "notInPreparation")
  ELSE /\ orderStatus' = [orderStatus EXCEPT ![o] = IF st = "undefined" THEN @ ELSE st]
       /\ UNCHANGED <<orders, users, typed, amounts, links, pending, status, agreedAmount, submission>>
       /\ Return("updateOrder", "ok", 0)

(* ---------------------------------------------------------------------- *)
(* Specification                                                           *)
(* ---------------------------------------------------------------------- *)

\* ids a caller may put in influencerIds where the service matches user.id:
(* ---------------------------------------------------------------------- *)
(* Batch writes of which one is rejected by the database                   *)
(* ---------------------------------------------------------------------- *)

\* inviteInfluencers whose checks pass and whose update of row `failed`
\* rejects: Promise.all of one update per row, outside any transaction
InviteInfluencersWriteFails(o, ids, failed) ==
  LET found == ParticipantsByInfluencerId(o, ids)
      notIn == NotInOrderByInfluencerId(o, ids)
      invalid == {i \in found : status[o][i] \notin {"Added", "Invited"}}
  IN  /\ notIn = {} /\ invalid = {}
      /\ failed \in found
      /\ status' = SetStatus(o, found \ {failed}, "Invited")
      /\ FrameOrders
      /\ Throw("inviteInfluencers", "DbError", "writeFailed")

\* confirmMatch whose checks pass and whose update of row `failed` rejects:
\* Promise.all of one update per row, outside any transaction
ConfirmMatchWriteFails(o, ids, failed) ==
  LET found == ParticipantsByUserId(o, ids)
      notIn == NotInOrderByUserId(o, ids)
      invalid == {i \in found : status[o][i] # "Matching"}
  IN  /\ notIn = {} /\ invalid = {}
      /\ failed \in found
      /\ status' = SetStatus(o, found \ {failed}, "ToBeSubmitted")
      /\ FrameOrders
      /\ Throw("confirmMatch", "DbError", "writeFailed")

\* the two updateMany calls of removeInfluencers
BulkUpdates == {"toNotSelected", "toRemoved"}

\* removeInfluencers whose check passes and whose bulk update `failed`
\* rejects: Promise.all of the two updateMany, outside any transaction
RemoveInfluencersWriteFails(o, ids, failed) ==
  LET notIn == NotInOrderByInfluencerId(o, ids)
      notSelected == {i \in InfluencerIds :
                        i \in ids /\ status[o][i] \in NotSelectedFrom(o)}
      removed == {i \in InfluencerIds :
                    i \in ids /\ status[o][i] \in RemovedFrom(o)}
  IN  /\ notIn = {}
      /\ status' = [status EXCEPT ![o] =
            [i \in InfluencerIds |->
               IF i \in notSelected /\ failed # "toNotSelected" THEN "NotSelected"
               ELSE IF i \in removed /\ failed # "toRemoved" THEN "Removed"
               ELSE @[i]]]
      /\ FrameOrders
      /\ Throw("removeInfluencers", "DbError", "writeFailed")

(* ---------------------------------------------------------------------- *)
(* Requests that overlap: the reads of a handler and its writes are        *)
(* separate database calls, and other requests run between them            *)
(* ---------------------------------------------------------------------- *)

\* confirmMatch up to its Promise.all: the rows are read and pass the checks
ConfirmMatchChecked(o, ids) ==
  LET found == ParticipantsByUserId(o, ids)
      notIn == NotInOrderByUserId(o, ids)
      invalid == {i \in found : status[o][i] # "Matching"}
  IN  /\ pending = NoPending
      /\ notIn = {} /\ invalid = {}
      /\ pending' = [op |-> "confirmMatch", order |-> o, rows |-> found, amount |-> 0]
      /\ UNCHANGED <<orders, users, typed, amounts, links, orderStatus, status,
                     agreedAmount, submission, last>>

\* the updates of confirmMatch, `where: { id }`, of the rows read before
ConfirmMatchWrite ==
  /\ pending.op = "confirmMatch"
  /\ status' = SetStatus(pending.order, pending.rows, "ToBeSubmitted")
  /\ pending' = NoPending
  /\ UNCHANGED <<orders, users, typed, amounts, links, orderStatus, agreedAmount,
                 submission>>
  /\ Return("confirmMatch", "ok", 0)

\* addInfluencers up to its Promise.all: the order and the users are read
\* and pass the checks
AddInfluencersChecked(o, ids, amount) ==
  LET notExist == {id \in ids : id \notin users}
      targets == {InfluencerIdOf(u) : u \in ids}
  IN  /\ pending = NoPending
      /\ OrderStatusOrdinal(orderStatus[o]) < OrderStatusOrdinal("Finished")
      /\ o \in typed
      /\ notExist = {}
      /\ pending' = [op |-> "addInfluencers", order |-> o, rows |-> targets,
                     amount |-> amount]
      /\ UNCHANGED <<orders, users, typed, amounts, links, orderStatus, status,
                     agreedAmount, submission, last>>

\* the upserts of addInfluencers for the users read before
AddInfluencersUpsert ==
  /\ pending.op = "addInfluencers"
  /\ status' = [status EXCEPT ![pending.order] =
        [i \in InfluencerIds |->
           IF i \in pending.rows /\ @[i] = NoRecord THEN "Added" ELSE @[i]]]
  /\ agreedAmount' = [agreedAmount EXCEPT ![pending.order] =
        [i \in InfluencerIds |-> IF i \in pending.rows THEN pending.amount ELSE @[i]]]
  /\ pending' = NoPending
  /\ UNCHANGED <<orders, users, typed, amounts, links, orderStatus, submission>>
  /\ Return("addInfluencers", "ok", 0)

(* ---------------------------------------------------------------------- *)
(* Inputs and next-state relations                                         *)
(* ---------------------------------------------------------------------- *)

\* the ids of the existing users, and an influencer id passed by mistake
UserIdInputs == users \cup {InfluencerIdOf(1)}

\* ids a caller may put in influencerIds where the service matches
\* influencer.id: their influencer ids, and a user id passed by mistake
InfluencerIdInputs == {InfluencerIdOf(u) : u \in users} \cup {1}

\* ids a caller may put in paymentIds: the rows that can come to exist
PaymentIdInputs ==
  {p \in PaymentIds : p[1] \in orders /\ UserIdOf(p[2]) \in users}

\* authenticated callers of the influencer endpoints
Callers == users \cup NonInfluencerUsers

Next ==
  \/ \E o \in orders, ids \in Batches(UserIdInputs), amount \in amounts :
        AddInfluencers(o, ids, amount)
  \/ \E o \in orders, u \in users, amount \in amounts, outcome \in UpsertRaceOutcomes :
        AddInfluencersOverlapping(o, u, amount, outcome)
  \/ \E o \in orders, id \in InfluencerIdInputs, amount \in amounts :
        PlatformAddInfluencers(o, id, amount)
  \/ \E o \in orders, role \in UpdateRoles, st \in UpdateDtoStatus :
        UpdateOrder(o, role, st)
  \/ \E o \in orders, ids \in Batches(InfluencerIdInputs) : InviteInfluencers(o, ids)
  \/ \E o \in orders \cap Campaigns, u \in Callers : CampaignAcceptInvitation(o, u)
  \/ \E o \in orders \cap Surveys, u \in Callers : SurveyAcceptInvitation(o, u)
  \/ \E o \in orders, u \in Callers : DeclineInvitation(o, u)
  \/ \E o \in orders, ids \in Batches(InfluencerIdInputs) : RemoveInfluencers(o, ids)
  \/ \E o \in orders, u \in Callers : RemoveInfluencerSelf(o, u)
  \/ \E o \in orders \cap Campaigns, ids \in Batches(UserIdInputs) : ConfirmMatch(o, ids)
  \/ \E o \in orders, u \in Callers : SubmitData(o, u)
  \/ \E o \in orders, ids \in Batches(UserIdInputs) : ApproveSubmission(o, ids)
  \/ \E o \in orders, ids \in Batches(UserIdInputs) : DisapproveSubmission(o, ids)
  \/ \E o \in orders, instructions \in BOOLEAN : StartOrder(o, instructions)
  \/ \E o \in orders, outcome \in TransactionOutcomes : FinishOrder(o, outcome)
  \/ \E o \in orders : ArchiveOrder(o)
  \/ \E ids \in Batches(PaymentIdInputs), st \in ApprovePaymentsDtoStatus :
        UpdatePlatformProductPayments(ids, st)

Spec == Init /\ [][Next]_vars

\* the same services over a campaign and a survey that coexist
SpecTwoOrders == InitTwoOrders /\ [][Next]_vars

\* the same services for one influencer who is added and submits repeatedly
SpecOneInfluencer == InitOneInfluencer /\ [][Next]_vars

\* a campaign with two participants and a survey with one
WriteFailureScenarios ==
  { [orders |-> Campaigns, users |-> UserIds, typed |-> Campaigns,
     amounts |-> {1}, links |-> {"linkA"}],
    [orders |-> Surveys, users |-> {1}, typed |-> Surveys,
     amounts |-> {1}, links |-> {"linkA"}] }

InitWriteFailures == InitFrom(WriteFailureScenarios)

\* the services when one write of a batch may be rejected
NextWriteFailures ==
  \/ Next
  \/ \E o \in orders, ids \in Batches(InfluencerIdInputs), failed \in InfluencerIds :
        InviteInfluencersWriteFails(o, ids, failed)
  \/ \E o \in orders \cap Campaigns, ids \in Batches(UserIdInputs),
         failed \in InfluencerIds :
        ConfirmMatchWriteFails(o, ids, failed)
  \/ \E o \in orders, ids \in Batches(InfluencerIdInputs), failed \in BulkUpdates :
        RemoveInfluencersWriteFails(o, ids, failed)

SpecWriteFailures == InitWriteFailures /\ [][NextWriteFailures]_vars

\* a campaign or a survey with one participant
OverlapScenarios ==
  { [orders |-> Campaigns, users |-> {1}, typed |-> Campaigns,
     amounts |-> {1}, links |-> {"linkA"}],
    [orders |-> Surveys, users |-> {1}, typed |-> Surveys,
     amounts |-> {1}, links |-> {"linkA"}] }

InitOverlapping == InitFrom(OverlapScenarios)

\* the services when one confirmMatch or addInfluencers request is between
\* its checks and its writes while other requests are served
NextOverlapping ==
  \/ Next
  \/ \E o \in orders \cap Campaigns, ids \in Batches(UserIdInputs) :
        ConfirmMatchChecked(o, ids)
  \/ ConfirmMatchWrite
  \/ \E o \in orders, ids \in Batches(UserIdInputs), amount \in amounts :
        AddInfluencersChecked(o, ids, amount)
  \/ AddInfluencersUpsert

SpecOverlapping == InitOverlapping /\ [][NextOverlapping]_vars

TypeOK ==
  /\ status \in [OrderIds -> [InfluencerIds -> ProductOrderInfluencerStatus \cup {NoRecord}]]
  /\ orderStatus \in [OrderIds -> Status]
  /\ agreedAmount \in [OrderIds -> [InfluencerIds -> Amounts \cup {0}]]
  /\ submission \in [OrderIds -> [InfluencerIds -> Links \cup {NoRecord}]]
  /\ pending.op \in {"none", "confirmMatch", "addInfluencers"}
  /\ pending.rows \subseteq InfluencerIds

(* ---------------------------------------------------------------------- *)
(* Properties                                                              *)
(* ---------------------------------------------------------------------- *)

\* the step is a call of `op`
Calls(op) == last'.op = op
Ended(op, res) == last.op = op /\ last.result = res

\* acceptInvitation of the service that owns the order
AcceptStep(o, u) ==
  IF o \in Campaigns THEN CampaignAcceptInvitation(o, u)
  ELSE SurveyAcceptInvitation(o, u)

\* statuses a participant has after accepting an invitation
PostAcceptance ==
  { "Matching", "ToBeSubmitted", "ToBeAnswered", "ToBeApproved", "Approved",
    "NotApproved", "ToBePaid", "Paid" }

\* the edges of the participant state diagram
DiagramEdge(o, from, to) ==
  \/ from = "Added" /\ to = "Invited"
  \/ from = "Invited" /\ to = "Invited"
  \/ from = "Invited" /\ to = "Matching" /\ o \in Campaigns
  \/ from = "Invited" /\ to = "ToBeAnswered" /\ o \in Surveys
  \/ from = "Invited" /\ to = "Declined"
  \/ from = "Matching" /\ to = "ToBeSubmitted"
  \/ from \in {"ToBeSubmitted", "ToBeAnswered", "NotApproved"} /\ to = "ToBeApproved"
  \/ from \in {"ToBeApproved", "NotApproved"} /\ to = "Approved"
  \/ from = "ToBeApproved" /\ to = "NotApproved"
  \/ from = "Approved" /\ to = "ToBePaid"
  \/ from = "ToBePaid" /\ to = "Paid"
  \/ from \in {"Added", "Invited", "Matching"} /\ to = "NotSelected"
  \/ /\ from \in {"ToBeSubmitted", "ToBeAnswered", "ToBeApproved", "Approved",
                  "ToBePaid", "Paid"}
     /\ to = "Removed"
  \/ from \in PostAcceptance /\ to = "Withdrawn"

\* C1: every change of an existing participant's status is an edge of the
\* state diagram (as claimed; refuted by the order-wide approval writes, by
\* self-removal from a side-branch status and by the payment update).
C1_OnlyDiagramEdges ==
  [][\A o \in OrderIds, i \in InfluencerIds :
       (status[o][i] # NoRecord /\ status'[o][i] # status[o][i])
          => DiagramEdge(o, status[o][i], status'[o][i])]_vars

\* some named participant of a batch call is outside the source set `from`
SomeNamedOutside(o, named, from) ==
  \E i \in named \cap InfluencerIds :
     status[o][i] # NoRecord /\ status[o][i] \notin from

\* the influencer ids that a list of user ids names
NamedByUserId(ids) == {InfluencerIdOf(u) : u \in ids \cap UserIds}

\* the calling influencer has a record whose status is outside `from`
OwnOutside(o, u, from) ==
  OwnRecord(o, u) # NoRecord /\ OwnRecord(o, u) \notin from

\* a call on a participant outside the source set ends with `err`, no write
Rejected(err) == last'.result = err /\ status' = status

\* statuses from which removeInfluencerSelf withdraws the participant
SelfRemoveFrom == ProductOrderInfluencerStatus \ {"Added", "Invited"}

\* the six operations that answer a wrong source status with BadRequest
BatchRejections ==
  /\ Calls("inviteInfluencers") =>
       \A o \in orders, ids \in Batches(InfluencerIdInputs) :
          (SomeNamedOutside(o, ids, {"Added", "Invited"}) /\ InviteInfluencers(o, ids))
             => Rejected("BadRequest")
  /\ Calls("confirmMatch") =>
       \A o \in orders \cap Campaigns, ids \in Batches(UserIdInputs) :
          (SomeNamedOutside(o, NamedByUserId(ids), {"Matching"}) /\ ConfirmMatch(o, ids))
             => Rejected("BadRequest")
  /\ Calls("approveSubmission") =>
       \A o \in orders, ids \in Batches(UserIdInputs) :
          ( /\ SomeNamedOutside(o, NamedByUserId(ids), {"ToBeApproved", "NotApproved"})
            /\ ApproveSubmission(o, ids) )
             => Rejected("BadRequest")
  /\ Calls("disapproveSubmission") =>
       \A o \in orders, ids \in Batches(UserIdInputs) :
          ( /\ SomeNamedOutside(o, NamedByUserId(ids), {"ToBeApproved"})
            /\ DisapproveSubmission(o, ids) )
             => Rejected("BadRequest")
  /\ Calls("acceptInvitation") =>
       \A o \in orders, u \in users :
          (OwnOutside(o, u, {"Invited"}) /\ AcceptStep(o, u))
             => Rejected("BadRequest")
  /\ Calls("declineInvitation") =>
       \A o \in orders, u \in users :
          (OwnOutside(o, u, {"Invited"}) /\ DeclineInvitation(o, u))
             => Rejected("BadRequest")

NamedAllIn(o, ids, from) ==
  \A id \in ids :
     /\ id \in UserIds
     /\ status[o][InfluencerIdOf(id)] \in from

\* every record of order o gets status `to`; nothing else changes
WrittenOrderWide(o, to) ==
  /\ \A i \in InfluencerIds :
        status'[o][i] = IF status[o][i] = NoRecord THEN NoRecord ELSE to
  /\ \A p \in OrderIds \ {o} : status'[p] = status[p]

\* C3: approveSubmission / disapproveSubmission validate the named ids only
\* and, when validation passes, write Approved / NotApproved to every
\* participant record of the order.
C3_ApprovalIsOrderWide ==
  [][/\ Calls("approveSubmission") =>
          \A o \in orders, ids \in Batches(UserIdInputs) :
             ApproveSubmission(o, ids) =>
               IF NamedAllIn(o, ids, {"ToBeApproved", "NotApproved"})
               THEN last'.result = "ok" /\ WrittenOrderWide(o, "Approved")
               ELSE Rejected("BadRequest")
     /\ Calls("disapproveSubmission") =>
          \A o \in orders, ids \in Batches(UserIdInputs) :
             DisapproveSubmission(o, ids) =>
               IF NamedAllIn(o, ids, {"ToBeApproved"})
               THEN last'.result = "ok" /\ WrittenOrderWide(o, "NotApproved")
               ELSE Rejected("BadRequest")]_vars

\* an approval has just succeeded and two participants of one order are Approved
C3_Witness ==
  /\ Ended("approveSubmission", "ok")
  /\ \E o \in orders : \A i \in InfluencerIds : status[o][i] = "Approved"

\* C4 as claimed: with A in Matching and B in ToBeApproved,
\* approveSubmission([B]) makes B Approved and leaves A in Matching.
C4_IneligibleUntouched ==
  [][Calls("approveSubmission") =>
       \A o \in orders \cap Campaigns, a \in UserIds, b \in UserIds :
          ( /\ status[o][InfluencerIdOf(a)] = "Matching"
            /\ status[o][InfluencerIdOf(b)] = "ToBeApproved"
            /\ ApproveSubmission(o, {b}) )
          => /\ status'[o][InfluencerIdOf(b)] = "Approved"
             /\ status'[o][InfluencerIdOf(a)] = "Matching"]_vars

\* statuses the removal claim calls pre-application and post-application
PreApplication == {"Added", "Invited", "Matching"}
PostApplication ==
  {"ToBeSubmitted", "ToBeAnswered", "ToBeApproved", "Approved", "ToBePaid", "Paid"}

\* C5: removeInfluencers, when every id is a participant, moves the named
\* pre-application participants to NotSelected and the named post-application
\* ones to Removed, leaves every other record alone and returns the number
\* of records whose status changed.
C5_RemovePartition ==
  [][Calls("removeInfluencers") =>
       \A o \in orders, ids \in Batches(InfluencerIdInputs) :
          ( /\ \A id \in ids : id \in InfluencerIds /\ status[o][id] # NoRecord
            /\ RemoveInfluencers(o, ids) )
          => /\ last'.result = "ok"
             /\ \A i \in InfluencerIds :
                   status'[o][i] =
                      IF i \in ids /\ status[o][i] \in PreApplication
                      THEN "NotSelected"
                      ELSE IF i \in ids /\ status[o][i] \in PostApplication
                      THEN "Removed"
                      ELSE status[o][i]
             /\ \A p \in OrderIds \ {o} : status'[p] = status[p]
             /\ last'.count =
                   Cardinality({i \in InfluencerIds : status'[o][i] # status[o][i]})]_vars

\* one call has just put one participant in NotSelected and one in Removed
C5_Witness ==
  /\ Ended("removeInfluencers", "ok")
  /\ last.count = 2
  /\ \E o \in orders, i \in InfluencerIds, j \in InfluencerIds :
        status[o][i] = "NotSelected" /\ status[o][j] = "Removed"

\* C6: removeInfluencerSelf by a participant that is exactly Invited fails
\* with Forbidden and the participant is still Invited.
C6_SelfRemoveInvitedForbidden ==
  [][Calls("removeInfluencerSelf") =>
       \A o \in orders, u \in users :
          (OwnRecord(o, u) = "Invited" /\ RemoveInfluencerSelf(o, u))
          => /\ last'.result = "Forbidden"
             /\ status' = status
             /\ status'[o][InfluencerIdOf(u)] = "Invited"]_vars

\* a self-removal was just refused with Forbidden for an Invited participant
C6_Witness ==
  /\ Ended("removeInfluencerSelf", "Forbidden")
  /\ \E o \in orders, u \in users : OwnRecord(o, u) = "Invited"

\* errors the services raise on purpose
ApplicationErrors ==
  {"NotFound", "BadRequest", "Forbidden", "Conflict", "ApplicationException"}

\* C7 as claimed: removeInfluencerSelf by an influencer with no record in the
\* order, or with a record that is still Added, fails with an application
\* error and writes nothing.
C7_SelfRemoveNonParticipant ==
  [][Calls("removeInfluencerSelf") =>
       \A o \in orders, u \in users :
          (OwnRecord(o, u) \in {NoRecord, "Added"} /\ RemoveInfluencerSelf(o, u))
          => /\ last'.result \in ApplicationErrors
             /\ status' = status]_vars

\* C8: an Added participant is invited (Invited), may be invited again
\* (still Invited), declines (Declined), and an acceptInvitation after that
\* fails with BadRequest and leaves it Declined.
C8_InviteDeclineAccept ==
  [][/\ Calls("inviteInfluencers") =>
          \A o \in orders, a \in InfluencerIds :
             (status[o][a] \in {"Added", "Invited"} /\ InviteInfluencers(o, {a}))
                => last'.result = "ok" /\ status'[o][a] = "Invited"
     /\ Calls("declineInvitation") =>
          \A o \in orders, u \in users :
             (OwnRecord(o, u) = "Invited" /\ DeclineInvitation(o, u))
                => /\ last'.result = "ok"
                   /\ status'[o][InfluencerIdOf(u)] = "Declined"
     /\ Calls("acceptInvitation") =>
          \A o \in orders, u \in users :
             (OwnRecord(o, u) = "Declined" /\ AcceptStep(o, u))
                => /\ last'.result = "BadRequest"
                   /\ status' = status
                   /\ status'[o][InfluencerIdOf(u)] = "Declined"]_vars

\* an acceptInvitation was just refused and the caller is Declined
C8_Witness ==
  /\ Ended("acceptInvitation", "BadRequest")
  /\ \E o \in orders, u \in users : OwnRecord(o, u) = "Declined"

\* no survey participant is Matching or ToBeSubmitted, no campaign
\* participant is ToBeAnswered
KindStatuses ==
  \A o \in OrderIds, i \in InfluencerIds :
     /\ o \in Surveys => status[o][i] \notin {"Matching", "ToBeSubmitted"}
     /\ o \in Campaigns => status[o][i] # "ToBeAnswered"

C10_ConfirmMatch ==
  [][Calls("confirmMatch") =>
       \A o \in orders \cap Campaigns, ids \in Batches(UserIdInputs) :
          ConfirmMatch(o, ids) =>
            IF NamedAllIn(o, ids, {"Matching"})
            THEN /\ last'.result = "ok"
                 /\ \A i \in InfluencerIds :
                       status'[o][i] = IF UserIdOf(i) \in ids THEN "ToBeSubmitted"
                                       ELSE status[o][i]
                 /\ \A p \in OrderIds \ {o} : status'[p] = status[p]
            ELSE Rejected("BadRequest")]_vars

\* a match was just confirmed for one participant while the other
\* participant of the campaign kept a different status
C10_Witness ==
  /\ Ended("confirmMatch", "ok")
  /\ \E o \in orders \cap Campaigns, i \in InfluencerIds, j \in InfluencerIds :
        /\ status[o][i] = "ToBeSubmitted"
        /\ status[o][j] \notin {NoRecord, "ToBeSubmitted"}

\* statuses a participant has before anything was submitted for it
BeforeSubmission ==
  {NoRecord, "Added", "Invited", "Matching", "ToBeSubmitted", "ToBeAnswered"}

\* a participant waiting for approval has a performance / response record,
\* and a participant with such a record is past the submission
SubmittedTogether ==
  \A o \in OrderIds, i \in InfluencerIds :
     /\ status[o][i] = "ToBeApproved" => submission[o][i] # NoRecord
     /\ submission[o][i] # NoRecord => status[o][i] \notin BeforeSubmission

\* C11: submitData by a participant in ToBeSubmitted / ToBeAnswered or
\* NotApproved either makes the participant ToBeApproved and stores the
\* submitted record, or, when a write or the commit fails, changes neither;
\* no state shows one of the two writes without the other.
C11_SubmitAtomic ==
  /\ []SubmittedTogether
  /\ [][Calls("submitData") =>
          \A o \in orders, u \in users :
             OwnRecord(o, u) \in SubmitFrom(o) =>
               /\ SubmitData(o, u) => last'.result \in {"ok", "DbError"}
               /\ \A link \in links, outcome \in TransactionOutcomes :
                     SubmitTransaction(o, u, link, outcome) =>
                       IF outcome = "commit"
                       THEN /\ last'.result = "ok"
                            /\ status'[o][InfluencerIdOf(u)] = "ToBeApproved"
                            /\ submission'[o][InfluencerIdOf(u)] = link
                       ELSE /\ last'.result = "DbError"
                            /\ status' = status
                            /\ submission' = submission]_vars

\* the upsert of a submit transaction has just failed and the participant
\* is still to submit, without a record
C11_Witness ==
  /\ last.op = "submitData" /\ last.msg = "secondWriteFails"
  /\ \E o \in orders, u \in users :
        /\ OwnRecord(o, u) \in {"ToBeSubmitted", "ToBeAnswered"}
        /\ submission[o][InfluencerIdOf(u)] = NoRecord

\* C12: finishOrder on an OnGoing order, when nothing fails, makes the order
\* Finished, moves the participants of the order that are Approved to
\* ToBePaid and leaves its other participants as they are.
C12_FinishMovesApproved ==
  [][Calls("finishOrder") =>
       \A o \in orders :
          (orderStatus[o] = "OnGoing" /\ FinishOrder(o, "commit"))
          => /\ last'.result = "ok"
             /\ orderStatus'[o] = "Finished"
             /\ \A i \in InfluencerIds :
                   status'[o][i] = IF status[o][i] = "Approved" THEN "ToBePaid"
                                   ELSE status[o][i]]_vars

\* an order was just finished with one participant moved to ToBePaid and
\* another one still ToBeSubmitted
C12_Witness ==
  /\ Ended("finishOrder", "ok")
  /\ \E o \in orders, i \in InfluencerIds, j \in InfluencerIds :
        /\ orderStatus[o] = "Finished"
        /\ status[o][i] = "ToBePaid"
        /\ status[o][j] = "ToBeSubmitted"

\* C13 as claimed: a finishOrder call either makes the order Finished and
\* moves every Approved participant of it to ToBePaid, or changes neither
\* the order nor any participant (refuted: the order update does not go
\* through the transaction client and stays when the commit fails).
C13_FinishAtomic ==
  [][Calls("finishOrder") =>
       \A o \in orders, outcome \in TransactionOutcomes :
          (orderStatus[o] = "OnGoing" /\ FinishOrder(o, outcome))
          => \/ /\ orderStatus'[o] = "Finished"
                /\ \A i \in InfluencerIds :
                      status[o][i] = "Approved" => status'[o][i] = "ToBePaid"
             \/ /\ orderStatus'[o] = orderStatus[o]
                /\ status'[o] = status[o]]_vars

\* C14: startOrder on an order that is OnGoing fails with the BadRequest
\* "already started" and changes nothing; on an InPreparation order whose
\* instructions are filled in it succeeds and makes the order OnGoing.
C14_StartTwice ==
  [][Calls("startOrder") =>
       \A o \in orders, instructions \in BOOLEAN :
          StartOrder(o, instructions) =>
            /\ orderStatus[o] = "OnGoing" =>
                 /\ last'.result = "BadRequest"
                 /\ last'.msg = "alreadyStarted"
                 /\ orderStatus' = orderStatus
                 /\ status' = status
            /\ (orderStatus[o] = "InPreparation" /\ instructions) =>
                 /\ last'.result = "ok"
                 /\ orderStatus'[o] = "OnGoing"]_vars

\* a start was just refused because the order is already OnGoing
C14_Witness ==
  /\ Ended("startOrder", "BadRequest")
  /\ last.msg = "alreadyStarted"
  /\ \E o \in orders : orderStatus[o] = "OnGoing"

\* C15 as claimed: the status of an order only changes by one step along
\* InPreparation, OnGoing, Finished, Archived (refuted: update writes the
\* status of its dto to an InPreparation order).
C15_OrderStatusOneStep ==
  [][\A o \in OrderIds :
       orderStatus'[o] # orderStatus[o] =>
          OrderStatusOrdinal(orderStatus'[o]) = OrderStatusOrdinal(orderStatus[o]) + 1]_vars

\* C16: addInfluencers of the campaign and survey services on an order that
\* is Finished or Archived, or that has no post type / survey type, fails
\* and changes no participant record: none is created and no status,
\* agreedAmount or submission changes.
C16_AddGuards ==
  [][Calls("addInfluencers") =>
       \A o \in orders :
          (orderStatus[o] \in {"Finished", "Archived"} \/ o \notin typed) =>
             \A ids \in Batches(UserIdInputs), amount \in amounts :
                AddInfluencers(o, ids, amount)
                => /\ last'.result \in {"Forbidden", "BadRequest"}
                   /\ status' = status
                   /\ agreedAmount' = agreedAmount]_vars

\* an addInfluencers call was just refused on a Finished or Archived order
\* on which the influencer has no record
C16_Witness ==
  /\ Ended("addInfluencers", "Forbidden")
  /\ \E o \in orders \cap typed, u \in users :
        /\ orderStatus[o] \in {"Finished", "Archived"}
        /\ OwnRecord(o, u) = NoRecord

\* C17: addInfluencers for a pair that already has a record succeeds without
\* creating a record: the records of the order are the same ones, with the
\* same statuses, and the agreedAmount of the named ones is replaced; the
\* plain create of the platform product order service is refused with
\* Conflict for such a pair.
C17_AddIsIdempotent ==
  [][/\ Calls("addInfluencers") =>
          \A o \in orders, ids \in Batches(UserIdInputs), amount \in amounts :
             ( /\ ids # {}
               /\ \A id \in ids : id \in users /\ OwnRecord(o, id) # NoRecord
               /\ AddInfluencers(o, ids, amount)
               /\ last'.result = "ok" )
             => /\ status' = status
                /\ \A i \in InfluencerIds :
                      agreedAmount'[o][i] =
                         IF UserIdOf(i) \in ids THEN amount ELSE agreedAmount[o][i]
     /\ Calls("platformAddInfluencers") =>
          \A o \in orders, id \in InfluencerIdInputs, amount \in amounts :
             ( /\ id \in InfluencerIds
               /\ status[o][id] # NoRecord
               /\ PlatformAddInfluencers(o, id, amount) )
             => /\ last'.result = "Conflict"
                /\ status' = status
                /\ agreedAmount' = agreedAmount]_vars

\* a repeated addInfluencers has just replaced the agreed amount of a
\* participant that is past Added
C17_Witness ==
  /\ Ended("addInfluencers", "ok")
  /\ \E o \in orders, u \in users :
        /\ OwnRecord(o, u) \notin {NoRecord, "Added"}
        /\ agreedAmount[o][InfluencerIdOf(u)] = 2

\* C18: addInfluencers on an order that passes the status and type checks,
\* with a list in which some id is not the id of an existing user, fails
\* with NotFound and creates or updates no record, not even for the ids
\* that resolve.
C18_AddNotFound ==
  [][Calls("addInfluencers") =>
       \A o \in orders \cap typed :
          orderStatus[o] \in {"InPreparation", "OnGoing"} =>
             \A ids \in Batches(UserIdInputs), amount \in amounts :
                ((\E id \in ids : id \notin users) /\ AddInfluencers(o, ids, amount))
                => /\ last'.result = "NotFound"
                   /\ status' = status
                   /\ agreedAmount' = agreedAmount]_vars

\* an addInfluencers call has just ended with NotFound on an order that
\* accepts influencers and on which an existing user has no record
C18_Witness ==
  /\ Ended("addInfluencers", "NotFound")
  /\ \E o \in orders \cap typed, u \in users :
        /\ orderStatus[o] \in {"InPreparation", "OnGoing"}
        /\ OwnRecord(o, u) = NoRecord

\* C19 as claimed: when two addInfluencers calls for a pair without a record
\* overlap, one record is created and the call that writes second ends as
\* an update or with Conflict (refuted: the unique violation of the
\* upsert's insert leaves addInfluencers as it was thrown).
C19_RaceEndsInConflict ==
  [][Calls("addInfluencersOverlapping") =>
       \A o \in orders \cap typed, u \in users :
          ( /\ orderStatus[o] \in {"InPreparation", "OnGoing"}
            /\ OwnRecord(o, u) = NoRecord
            /\ \E amount \in amounts, outcome \in UpsertRaceOutcomes :
                  AddInfluencersOverlapping(o, u, amount, outcome) )
          => /\ last'.result \in {"ok", "Conflict"}
             /\ status'[o][InfluencerIdOf(u)] = "Added"]_vars

\* ids of a list that are not participants of the order, by influencer id
\* and by user id
NotParticipantsByInfluencerId(o, ids) ==
  {id \in ids : id \notin InfluencerIds \/ status[o][id] = NoRecord}
NotParticipantsByUserId(o, ids) ==
  {id \in ids : id \notin UserIds \/ OwnRecord(o, id) = NoRecord}

\* the result of a batch call whose list has `notParticipants` and whose
\* participants contain one outside the source statuses exactly if `invalid`
PartitionPriority(notParticipants, invalid) ==
  /\ notParticipants # {} =>
       /\ last'.result = "BadRequest"
       /\ last'.msg = "notInOrder"
       /\ status' = status
  /\ (notParticipants = {} /\ invalid) =>
       /\ last'.result = "BadRequest"
       /\ last'.msg = "invalidStatus"
       /\ status' = status

\* C20: inviteInfluencers, confirmMatch, approveSubmission and
\* disapproveSubmission fail with the not-a-participant BadRequest when some
\* id is not a participant, whatever the statuses of the others, with the
\* invalid-status BadRequest when all are participants and one has a wrong
\* status, and change no status in either case (each call of a list either
\* is not this step or ends as the partitions of the list require).
C20_PartitionPriority ==
  [][/\ Calls("inviteInfluencers") =>
          \A o \in orders, ids \in Batches(InfluencerIdInputs) :
             \/ PartitionPriority(NotParticipantsByInfluencerId(o, ids),
                                  SomeNamedOutside(o, ids, {"Added", "Invited"}))
             \/ ~InviteInfluencers(o, ids)
     /\ Calls("confirmMatch") =>
          \A o \in orders \cap Campaigns, ids \in Batches(UserIdInputs) :
             \/ PartitionPriority(NotParticipantsByUserId(o, ids),
                                  SomeNamedOutside(o, NamedByUserId(ids), {"Matching"}))
             \/ ~ConfirmMatch(o, ids)
     /\ Calls("approveSubmission") =>
          \A o \in orders, ids \in Batches(UserIdInputs) :
             \/ PartitionPriority(NotParticipantsByUserId(o, ids),
                                  SomeNamedOutside(o, NamedByUserId(ids),
                                                   {"ToBeApproved", "NotApproved"}))
             \/ ~ApproveSubmission(o, ids)
     /\ Calls("disapproveSubmission") =>
          \A o \in orders, ids \in Batches(UserIdInputs) :
             \/ PartitionPriority(NotParticipantsByUserId(o, ids),
                                  SomeNamedOutside(o, NamedByUserId(ids),
                                                   {"ToBeApproved"}))
             \/ ~DisapproveSubmission(o, ids)]_vars

\* an invitation was just refused for an id that is not in the order while
\* a participant of the order is past Invited and another user has no record
C20_Witness ==
  /\ Ended("inviteInfluencers", "BadRequest")
  /\ last.msg = "notInOrder"
  /\ \E o \in orders, i \in InfluencerIds, j \in InfluencerIds :
        /\ status[o][i] \notin {NoRecord, "Added", "Invited"}
        /\ status[o][j] = NoRecord

(* ---------------------------------------------------------------------- *)
(* Batch writes, terminal statuses, creation status                        *)
(* ---------------------------------------------------------------------- *)

\* the batch operations whose writes are issued together
BatchWriters == {"inviteInfluencers", "confirmMatch", "removeInfluencers"}

\* C21: when one write of inviteInfluencers, confirmMatch or
\* removeInfluencers is rejected after the checks passed, the call changes
\* no participant's status
C21_BatchAllOrNothing ==
  [][(last'.op \in BatchWriters /\ last'.result = "DbError") => status' = status]_vars

\* the side branches of the lifecycle
SideBranchStatuses == {"Declined", "NotSelected", "Removed", "Withdrawn"}

\* C22: a participant in Declined, NotSelected, Removed or Withdrawn keeps
\* that status under every later operation
C22_SideBranchesTerminal ==
  [][\A o \in OrderIds, i \in InfluencerIds :
       status[o][i] \in SideBranchStatuses => status'[o][i] = status[o][i]]_vars

\* C23: a participant record that comes to exist has status Added,
\* whichever add operation created it
C23_CreatedAsAdded ==
  [][\A o \in OrderIds, i \in InfluencerIds :
       (status[o][i] = NoRecord /\ status'[o][i] # NoRecord)
         => status'[o][i] = "Added"]_vars

(* ---------------------------------------------------------------------- *)
(* Overlapping requests                                                    *)
(* ---------------------------------------------------------------------- *)

\* C24: the write of a request replaces a status of the request's source
\* set: the rows that confirmMatch moves to ToBeSubmitted are Matching at
\* the moment of the write
C24_WriteReplacesSourceStatus ==
  [][ConfirmMatchWrite =>
       \A i \in pending.rows : status[pending.order][i] = "Matching"]_vars

\* C25: when finishOrder has committed Finished while an addInfluencers
\* request was between its checks and its upserts, the upserts create no
\* record and rewrite no agreedAmount
C25_NoAddAfterFinished ==
  [][(AddInfluencersUpsert /\ Ended("finishOrder", "ok")
        /\ orderStatus[pending.order] = "Finished")
       => status' = status /\ agreedAmount' = agreedAmount]_vars

(* ---------------------------------------------------------------------- *)
(* Frames of finishOrder and addInfluencers, ids, payment statuses         *)
(* ---------------------------------------------------------------------- *)

\* C26: finishOrder of one order leaves the participants of every other
\* order in the status they have
C26_FinishOwnOrderOnly ==
  [][Calls("finishOrder") =>
       \A o \in orders, outcome \in TransactionOutcomes :
          \/ \A p \in OrderIds \ {o} : status'[p] = status[p]
          \/ ~FinishOrder(o, outcome)]_vars

\* C27: addInfluencers naming an influencer who has a record in the order
\* leaves that record in the status it has, whatever it is, and its
\* submission as it is; a call that succeeds replaces the agreedAmount
C27_AddKeepsStatus ==
  [][Calls("addInfluencers") =>
       \A o \in orders, ids \in Batches(UserIdInputs), amount \in amounts :
          \/ \A u \in ids \cap users :
                OwnRecord(o, u) # NoRecord
                  => /\ status'[o][InfluencerIdOf(u)] = OwnRecord(o, u)
                     /\ submission'[o][InfluencerIdOf(u)] = submission[o][InfluencerIdOf(u)]
                     /\ last'.result = "ok"
                          => agreedAmount'[o][InfluencerIdOf(u)] = amount
          \/ ~AddInfluencers(o, ids, amount)]_vars

\* addInfluencers has just succeeded for a participant that is in a side
\* branch, and the participant is still there
C27_Witness ==
  /\ Ended("addInfluencers", "ok")
  /\ \E o \in orders, u \in users : OwnRecord(o, u) \in SideBranchStatuses

\* C28: the user id that addInfluencers accepted for an influencer is the
\* id under which inviteInfluencers and removeInfluencers find that
\* participant
C28_SameIdEverywhere ==
  [][/\ Calls("inviteInfluencers") =>
          \A o \in orders, u \in users :
             \/ OwnRecord(o, u) \notin {"Added", "Invited"}
             \/ ~InviteInfluencers(o, {u})
             \/ last'.result = "ok" /\ status'[o][InfluencerIdOf(u)] = "Invited"
     /\ Calls("removeInfluencers") =>
          \A o \in orders, u \in users :
             \/ OwnRecord(o, u) = NoRecord
             \/ ~RemoveInfluencers(o, {u})
             \/ last'.result = "ok"]_vars

\* the statuses of a participant that is queued for payment or paid
PaidStatuses == {"ToBePaid", "Paid"}

\* C29: a participant enters ToBePaid or Paid from Approved only
C29_PaymentAfterApproval ==
  [][\A o \in OrderIds, i \in InfluencerIds :
       (status'[o][i] \in PaidStatuses /\ status[o][i] \notin PaidStatuses)
         => status[o][i] = "Approved"]_vars

\* the statuses from the submission on
SubmittedStatuses == {"ToBeApproved", "NotApproved", "Approved", "ToBePaid", "Paid"}

\* C30: a campaign participant in ToBeApproved, NotApproved, Approved,
\* ToBePaid or Paid has a performance record
C30_SubmittedHasPerformance ==
  \A o \in orders \cap Campaigns, i \in InfluencerIds :
     status[o][i] \in SubmittedStatuses => submission[o][i] # NoRecord

====
